---- MODULE Spec2Model ----
(***************************************************************************)
(* A model of af2rave's simulation-preparation and CV-monitoring code:     *)
(*   - af2rave/simulation.py : create_simulation_box, CVReporter           *)
(*   - af2rave/af2rave.py    : fill_missing_entries, simulation            *)
(*   - af2rave/run.py        : RunAF2RAVE.run_simulation                   *)
(* Each subsystem has its own specification (SpecCV, SpecFill, SpecJob,    *)
(* SpecRun, SpecBox); a specification leaves the variables of the other    *)
(* subsystems at their idle values.                                        *)
(***************************************************************************)
EXTENDS Integers, Sequences, FiniteSets, TLC

VARIABLES
    \* ---- CVReporter and the run loop that drives it ----
    disk,            \* the file at the reporter's output path: [exists, lines]
    out,             \* self._out: "none" (never opened) | "open" | "closed"
    reportInterval,  \* self._reportInterval
    list_of_cv,      \* self.list_of_cv
    ctorErr,         \* exception raised by the last CVReporter.__init__
    pc,              \* position of the process that owns the reporter
    currentStep,     \* simulation.currentStep
    startStep,       \* the step counter at run() entry
    endStep,         \* the step counter at which run() returns
    countdown,       \* steps left until the report the driver has scheduled
    lastQuery,       \* the last describeNextReport call: [asked, s, n]
    runs,            \* number of processes launched so far
    \* ---- fill_missing_entries and the job entry point simulation() ----
    json_data,       \* the configuration dict (metadata), mutated in place
    default_values,  \* the defaults merged into it
    orig,            \* json_data as the caller passed it
    prev,            \* json_data before the last fill_missing_entries call
    nfill,           \* number of fill_missing_entries calls made
    jobPc,           \* position inside simulation(metadata)
    jobErr,          \* exception that ended simulation(metadata)
    created,         \* calls made on the simulation object, in order
    \* ---- RunAF2RAVE.run_simulation ----
    pdb_centers,     \* self.pdb_centers: [set, list]
    pdb_cent_list,   \* the argument, then the list iterated: [none, list]
    failAt,          \* per structure, the pipeline stage that raises (0: none)
    runPc,           \* position inside run_simulation
    idx,             \* index of the next structure of the for loop
    callLog,         \* pipeline calls made so far: <<structure, stage>>
    \* ---- create_simulation_box ----
    outfile,         \* the outfile argument: "None" or a path
    pH_kwarg,        \* kwargs' pH: "absent" or a value
    boxFailAt,       \* the stage of the pipeline that raises (0: none)
    boxPc,           \* position inside create_simulation_box
    boxLog,          \* stages run so far: [op, arg]
    written          \* whether the prepared structure was written to outfile

cvVars == <<disk, out, reportInterval, list_of_cv, ctorErr, pc, currentStep,
            startStep, endStep, countdown, lastQuery, runs>>

cfgVars == <<json_data, default_values, orig, prev, nfill, jobPc, jobErr,
             created>>

runVars == <<pdb_centers, pdb_cent_list, failAt, runPc, idx, callLog>>

boxVars == <<outfile, pH_kwarg, boxFailAt, boxPc, boxLog, written>>

vars == <<cvVars, cfgVars, runVars, boxVars>>

\* ---------------------------------------------------------------- bounds
MaxR == 2
    \* report intervals are 1..MaxR
MaxTotal == 4
    \* a run asks for 0..MaxTotal steps
MaxStart == 1
    \* a restored step counter is in 0..MaxStart
MaxRuns == 2
    \* processes launched one after the other on the same output path

\* No sequence of MaxRuns runs writes more lines than this (a header and at
\* most one row per step, per run); the guards on it only stop a reporter
\* that would report forever without stepping.
MaxFills == 2
    \* fill_missing_entries is applied at most MaxFills times to one dict
MaxGiven == 3
    \* a job configuration gives at most MaxGiven top-level keys
MaxReps == 3
    \* run_simulation is given at most MaxReps cluster representatives

MaxLines == MaxRuns * (MaxTotal + 1)

\* ---------------------------------------------------------------- helpers
Abs(x) == IF x < 0 THEN -x ELSE x

Atoms == 0..3

\* list_of_indexes as passed to CVReporter: None, or a list of index pairs.
NoneArg == [none |-> TRUE, pairs |-> <<>>]
ListArg(p) == [none |-> FALSE, pairs |-> p]
CVLists == { <<>>, << <<0, 1>> >>, << <<0, 1>>, <<2, 3>> >> }
CVArgs == {NoneArg} \cup {ListArg(p) : p \in CVLists}

\* Positions handed to report() by the engine, on an integer nanometre grid.
Coords == { [a \in Atoms |-> 3 * a] }

\* np.linalg.norm((coord[a]-coord[b]).value_in_unit(angstroms)): 1 nm = 10 A.
Distance(coord, a, b) == 10 * Abs(coord[a] - coord[b])

\* "#! TIME " + " ".join(f"dist_{i}_{j}" ...) + "\n"
HeaderLine(pairs) ==
    [kind |-> "header", step |-> 0, names |-> pairs, vals |-> <<>>]

\* self.format.format(step, *self.buffer): "{} " + "{:.4f} " * n_cv + "\n"
\* (grid distances are whole numbers of Angstrom, printed exactly by %.4f)
RowLine(step, buffer) ==
    [kind |-> "row", step |-> step, names |-> <<>>, vals |-> buffer]

\* open(file, 'a' if append else 'w')
OpenFile(d, append) ==
    [exists |-> TRUE, lines |-> IF append /\ d.exists THEN d.lines ELSE <<>>]

WriteLine(d, line) == [d EXCEPT !.lines = Append(@, line)]

\* ---- JSON values: a scalar (a string; "None" is null) or a dict ----
EmptyDict == [k \in {} |-> 0]
Scalar(x) == [tag |-> "s", v |-> x, m |-> EmptyDict]
Dict(f) == [tag |-> "d", v |-> "", m |-> f]
IsDict(x) == x.tag = "d"

\* Mutants of fill_missing_entries: one that lets the defaults overwrite the
\* keys that are present, one that does not descend into nested dicts.
fill_missing_entries_Overwrite(json_data0, defaults0) ==
    [k \in DOMAIN json_data0 \cup DOMAIN defaults0 |->
        IF k \in DOMAIN defaults0 THEN defaults0[k] ELSE json_data0[k]]

fill_missing_entries_Shallow(json_data0, defaults0) ==
    [k \in DOMAIN json_data0 \cup DOMAIN defaults0 |->
        IF k \notin DOMAIN json_data0 THEN defaults0[k] ELSE json_data0[k]]

\* fill_missing_entries(json_data, default_values): the dict it returns
RECURSIVE fill_missing_entries(_, _)
fill_missing_entries(json_data0, defaults0) ==
    [k \in DOMAIN json_data0 \cup DOMAIN defaults0 |->
        IF k \notin DOMAIN json_data0
        THEN defaults0[k]
        ELSE IF k \in DOMAIN defaults0
                /\ IsDict(defaults0[k]) /\ IsDict(json_data0[k])
        THEN Dict(fill_missing_entries(json_data0[k].m, defaults0[k].m))
        ELSE json_data0[k]]

\* Dicts over two keys and two scalars, nested to depth two: the inputs of
\* fill_missing_entries taken as a function of any two dicts.
GenericKeys == {"a", "b"}
GenericScalars == {Scalar("x"), Scalar("y")}
DictsOver(vals) ==
    UNION {[D -> vals] : D \in SUBSET GenericKeys}
GenericDicts ==
    DictsOver(GenericScalars \cup {Dict(f) : f \in DictsOver(GenericScalars)})

\* Mutants of describeNextReport: one that answers 0 on a multiple of the
\* interval, one that is late by a step.
describeNextReport_AtMultipleZero(R, s) == (R - (s % R)) % R

describeNextReport_OffByOne(R, s) == R - (s % R) + 1

\* CVReporter.describeNextReport: steps until the next report

describeNextReport(R, s) == R - (s % R)

\* ------------------------------------------------------------- CVReporter
\* The process is launched: a fresh run from step 0, or one whose step
\* counter was restored from a checkpoint.
Launch ==
    /\ pc \in {"idle", "exited"}
    /\ runs < MaxRuns
    /\ \E s \in 0..MaxStart, n \in 0..MaxTotal :
         /\ startStep' = s
         /\ currentStep' = s
         /\ endStep' = s + n
    /\ runs' = runs + 1
    /\ pc' = "built"
    /\ out' = "none"
    /\ reportInterval' = 0
    /\ list_of_cv' = NoneArg
    /\ ctorErr' = "none"
    /\ countdown' = 0
    /\ lastQuery' = [asked |-> FALSE, s |-> 0, n |-> 0]
    /\ UNCHANGED disk

\* CVReporter.__init__(file, reportInterval, list_of_indexes, append)
CVReporterInit ==
    /\ pc = "built"
    /\ \E openOk \in BOOLEAN, R \in 1..MaxR, arg \in CVArgs, append \in BOOLEAN :
         IF ~openOk
         THEN \* open() raises: nothing was assigned
              /\ ctorErr' = "OSError"
              /\ pc' = "failed"
              /\ UNCHANGED <<disk, out, reportInterval, list_of_cv>>
         ELSE /\ out' = "open"
              /\ reportInterval' = R
              /\ list_of_cv' = arg
              /\ IF arg.none
                 THEN \* len(None)
                      /\ ctorErr' = "TypeError"
                      /\ pc' = "failed"
                      /\ disk' = OpenFile(disk, append)
                 ELSE IF Len(arg.pairs) = 0
                 THEN \* assert self.n_cv > 0
                      /\ ctorErr' = "AssertionError"
                      /\ pc' = "failed"
                      /\ disk' = OpenFile(disk, append)
                 ELSE /\ Len(OpenFile(disk, append).lines) < MaxLines
                      /\ ctorErr' = "none"
                      /\ pc' = "query"
                      /\ disk' = WriteLine(OpenFile(disk, append),
                                           HeaderLine(arg.pairs))
    /\ UNCHANGED <<currentStep, startStep, endStep, countdown, lastQuery, runs>>

\* The run loop asks the reporter when its next report is due.
DriverQuery ==
    /\ pc = "query"
    /\ IF currentStep >= endStep
       THEN /\ pc' = "ended"
            /\ UNCHANGED <<countdown, lastQuery>>
       ELSE LET n == describeNextReport(reportInterval, currentStep) IN
            /\ countdown' = n
            /\ lastQuery' = [asked |-> TRUE, s |-> currentStep, n |-> n]
            /\ pc' = IF n <= 0 THEN "report" ELSE "stepping"
    /\ UNCHANGED <<disk, out, reportInterval, list_of_cv, ctorErr, currentStep,
                   startStep, endStep, runs>>

\* The run loop advances the integrator by one step; the engine may fail.
DriverStep ==
    /\ pc = "stepping"
    /\ \E ok \in BOOLEAN :
         IF ~ok
         THEN /\ pc' = "failed"
              /\ UNCHANGED <<currentStep, countdown>>
         ELSE /\ currentStep' = currentStep + 1
              /\ countdown' = countdown - 1
              /\ pc' = IF countdown - 1 = 0 THEN "report"
                       ELSE IF currentStep + 1 >= endStep THEN "ended"
                       ELSE "stepping"
    /\ UNCHANGED <<disk, out, reportInterval, list_of_cv, ctorErr, startStep,
                   endStep, lastQuery, runs>>

\* CVReporter.report(simulation, state)
CVReporterReport ==
    /\ pc = "report"
    /\ Len(disk.lines) < MaxLines
    /\ \E coord \in Coords :
         LET buffer == [i \in 1..Len(list_of_cv.pairs) |->
                          Distance(coord, list_of_cv.pairs[i][1],
                                          list_of_cv.pairs[i][2])]
         IN disk' = WriteLine(disk, RowLine(currentStep, buffer))
    /\ pc' = "query"
    /\ UNCHANGED <<out, reportInterval, list_of_cv, ctorErr, currentStep,
                   startStep, endStep, countdown, lastQuery, runs>>

\* CVReporter.__del__: runs if and when the interpreter finalizes the object
CVReporterDel ==
    /\ pc \in {"ended", "failed"}
    /\ out = "open"
    /\ out' = "closed"
    /\ UNCHANGED <<disk, reportInterval, list_of_cv, ctorErr, pc, currentStep,
                   startStep, endStep, countdown, lastQuery, runs>>

\* The process ends; nothing in the code closes the reporter at this point.
ProcessExit ==
    /\ pc \in {"ended", "failed"}
    /\ pc' = "exited"
    /\ UNCHANGED <<disk, out, reportInterval, list_of_cv, ctorErr, currentStep,
                   startStep, endStep, countdown, lastQuery, runs>>

InitCV ==
    /\ disk = [exists |-> FALSE, lines |-> <<>>]
    /\ out = "none"
    /\ reportInterval = 0
    /\ list_of_cv = NoneArg
    /\ ctorErr = "none"
    /\ pc = "idle"
    /\ currentStep = 0
    /\ startStep = 0
    /\ endStep = 0
    /\ countdown = 0
    /\ lastQuery = [asked |-> FALSE, s |-> 0, n |-> 0]
    /\ runs = 0

CfgIdle ==
    /\ json_data = EmptyDict
    /\ default_values = EmptyDict
    /\ orig = EmptyDict
    /\ prev = EmptyDict
    /\ nfill = 0
    /\ jobPc = "idle"
    /\ jobErr = "none"
    /\ created = <<>>

RunIdle ==
    /\ pdb_centers = [set |-> FALSE, list |-> <<>>]
    /\ pdb_cent_list = [none |-> TRUE, list |-> <<>>]
    /\ failAt = [r \in {} |-> 0]
    /\ runPc = "idle"
    /\ idx = 0
    /\ callLog = <<>>

BoxIdle ==
    /\ outfile = "None"
    /\ pH_kwarg = "absent"
    /\ boxFailAt = 0
    /\ boxPc = "idle"
    /\ boxLog = <<>>
    /\ written = FALSE

otherThanCV == <<cfgVars, runVars, boxVars>>

NextCV ==
    \/ Launch /\ UNCHANGED otherThanCV
    \/ CVReporterInit /\ UNCHANGED otherThanCV
    \/ DriverQuery /\ UNCHANGED otherThanCV
    \/ DriverStep /\ UNCHANGED otherThanCV
    \/ CVReporterReport /\ UNCHANGED otherThanCV
    \/ CVReporterDel /\ UNCHANGED otherThanCV
    \/ ProcessExit /\ UNCHANGED otherThanCV

StartCV == InitCV /\ CfgIdle /\ RunIdle /\ BoxIdle

SpecCV == StartCV /\ [][NextCV]_vars

\* ------------------------------------------------- fill_missing_entries
Fill ==
    /\ jobPc = "idle"
    /\ nfill < MaxFills
    /\ prev' = json_data
    /\ json_data' = fill_missing_entries(json_data, default_values)
    /\ nfill' = nfill + 1
    /\ UNCHANGED <<default_values, orig, jobPc, jobErr, created>>

InitFill ==
    /\ json_data \in GenericDicts
    /\ default_values \in GenericDicts
    /\ orig = json_data
    /\ prev = json_data
    /\ nfill = 0
    /\ jobPc = "idle"
    /\ jobErr = "none"
    /\ created = <<>>

otherThanCfg == <<cvVars, runVars, boxVars>>

NextFill == Fill /\ UNCHANGED otherThanCfg

StartFill == InitCV /\ InitFill /\ RunIdle /\ BoxIdle

SpecFill == StartFill /\ [][NextFill]_vars

\* ------------------------------------------------- simulation(metadata)
\* default_values of simulation()
CvReporterDefaults ==
    [k \in {"list_of_index", "cv_file", "cv_freq"} |->
        CASE k = "list_of_index" -> Scalar("None")
          [] k = "cv_file" -> Scalar("COLVAR.dat")
          [] k = "cv_freq" -> Scalar("500")]

XtcReporterDefaults ==
    [k \in {"xtc_file", "xtc_freq"} |->
        CASE k = "xtc_file" -> Scalar("traj.xtc")
          [] k = "xtc_freq" -> Scalar("5000")]

ScalarKeys == {"pdb_file", "temp", "pressure", "dt", "cutoff", "steps",
               "append", "progress_every", "save_checkpoint", "save_pdb"}
GroupKeys == {"cv_reporter", "xtc_reporter"}

DefaultValues ==
    [k \in ScalarKeys \cup GroupKeys |->
        CASE k = "pdb_file" -> Scalar("None")
          [] k = "temp" -> Scalar("310")
          [] k = "pressure" -> Scalar("1")
          [] k = "dt" -> Scalar("0.002")
          [] k = "cutoff" -> Scalar("10.0")
          [] k = "steps" -> Scalar("50000000")
          [] k = "append" -> Scalar("False")
          [] k = "progress_every" -> Scalar("1000")
          [] k = "save_checkpoint" -> Scalar("None")
          [] k = "save_pdb" -> Scalar("None")
          [] k = "cv_reporter" -> Dict(CvReporterDefaults)
          [] k = "xtc_reporter" -> Dict(XtcReporterDefaults)]

\* What a job configuration may give for a key: a value "u" of the user, a
\* JSON null, and for a reporter group also a dict of some of its keys.
UserValues(k) ==
    {Scalar("u"), Scalar("None")} \cup
    IF k \in GroupKeys
    THEN {Dict(f) : f \in UNION {[D -> {Scalar("u")}] :
                                   D \in SUBSET DOMAIN DefaultValues[k].m}}
    ELSE {}

RECURSIVE ConfigsOver(_)
ConfigsOver(D) ==
    IF D = {} THEN {EmptyDict}
    ELSE LET k == CHOOSE x \in D : TRUE IN
         {[x \in D |-> IF x = k THEN val ELSE f[x]] :
             f \in ConfigsOver(D \ {k}), val \in UserValues(k)}

JobConfigs ==
    UNION {ConfigsOver(D) : D \in {E \in SUBSET DOMAIN DefaultValues :
                                      Cardinality(E) <= MaxGiven}}

\* Mutant of PdbFileIsNone: the check for a missing structure file dropped.
PdbFileIsNone_Never(kwargs) == FALSE

\* kwargs["pdb_file"] is None
PdbFileIsNone(kwargs) == kwargs["pdb_file"] = Scalar("None")

\* metadata["cv_reporter"][...] and metadata["xtc_reporter"][...] can be read
GroupsSubscriptable(md) ==
    IsDict(md["cv_reporter"]) /\ IsDict(md["xtc_reporter"])

\* simulation(): merge the defaults, read the options, check pdb_file and
\* construct the simulation object.
JobEntry ==
    /\ jobPc = "entry"
    /\ LET md == fill_missing_entries(json_data, default_values) IN
       /\ prev' = json_data
       /\ json_data' = md
       /\ nfill' = nfill + 1
       /\ IF ~GroupsSubscriptable(md)
          THEN /\ jobPc' = "raised"
               /\ jobErr' = "TypeError"
               /\ UNCHANGED created
          ELSE IF PdbFileIsNone(md)
          THEN /\ jobPc' = "raised"
               /\ jobErr' = "ValueError"
               /\ UNCHANGED created
          ELSE /\ created' = Append(created, "SimulationBox")
               /\ \E ok \in BOOLEAN :
                    IF ok THEN jobPc' = "run" /\ UNCHANGED jobErr
                    ELSE jobPc' = "raised" /\ jobErr' = "SimulationError"
    /\ UNCHANGED <<default_values, orig>>

\* ubs.run(metadata["steps"])
JobRun ==
    /\ jobPc = "run"
    /\ created' = Append(created, "run")
    /\ \E ok \in BOOLEAN :
         IF ok THEN jobPc' = "save_checkpoint" /\ UNCHANGED jobErr
         ELSE jobPc' = "raised" /\ jobErr' = "SimulationError"
    /\ UNCHANGED <<json_data, default_values, orig, prev, nfill>>

\* if metadata["save_checkpoint"] is not None: ubs.save_checkpoint(...)
JobSaveCheckpoint ==
    /\ jobPc = "save_checkpoint"
    /\ created' = IF json_data["save_checkpoint"] # Scalar("None")
                  THEN Append(created, "save_checkpoint") ELSE created
    /\ jobPc' = "save_pdb"
    /\ UNCHANGED <<json_data, default_values, orig, prev, nfill, jobErr>>

\* if metadata["save_pdb"] is not None: ubs.save_pdb(...)
JobSavePdb ==
    /\ jobPc = "save_pdb"
    /\ created' = IF json_data["save_pdb"] # Scalar("None")
                  THEN Append(created, "save_pdb") ELSE created
    /\ jobPc' = "returned"
    /\ UNCHANGED <<json_data, default_values, orig, prev, nfill, jobErr>>

InitJob ==
    /\ json_data \in JobConfigs
    /\ default_values = DefaultValues
    /\ orig = json_data
    /\ prev = json_data
    /\ nfill = 0
    /\ jobPc = "entry"
    /\ jobErr = "none"
    /\ created = <<>>

NextJob ==
    \/ JobEntry /\ UNCHANGED otherThanCfg
    \/ JobRun /\ UNCHANGED otherThanCfg
    \/ JobSaveCheckpoint /\ UNCHANGED otherThanCfg
    \/ JobSavePdb /\ UNCHANGED otherThanCfg

StartJob == InitCV /\ InitJob /\ RunIdle /\ BoxIdle

SpecJob == StartJob /\ [][NextJob]_vars

\* ----------------------------------------- RunAF2RAVE.run_simulation
\* The calls of one iteration of the for loop, in order.
PipelineStages ==
    <<"SimulationBox", "create_box", "save_pdb", "UnbiasedSimulation", "run">>

Structures == {"a.pdb", "b.pdb"}

RECURSIVE ListsUpTo(_)
ListsUpTo(n) ==
    IF n = 0 THEN {<<>>}
    ELSE ListsUpTo(n - 1) \cup
         {Append(l, x) : l \in {m \in ListsUpTo(n - 1) : Len(m) = n - 1},
                         x \in Structures}

\* if pdb_cent_list == None: pdb_cent_list = self.pdb_centers
RunSimulationCall ==
    /\ runPc = "call"
    /\ IF ~pdb_cent_list.none
       THEN runPc' = "loop" /\ UNCHANGED pdb_cent_list
       ELSE IF pdb_centers.set
       THEN /\ pdb_cent_list' = [none |-> FALSE, list |-> pdb_centers.list]
            /\ runPc' = "loop"
       ELSE \* run_clustering never ran: no attribute pdb_centers
            runPc' = "raised" /\ UNCHANGED pdb_cent_list
    /\ idx' = 1
    /\ UNCHANGED <<pdb_centers, failAt, callLog>>

\* One iteration of `for pdb_it in pdb_cent_list`: the calls are made in
\* order and the first that raises ends run_simulation.
RunSimulationIteration ==
    /\ runPc = "loop"
    /\ idx <= Len(pdb_cent_list.list)
    /\ LET pdb_it == pdb_cent_list.list[idx]
           last == IF failAt[pdb_it] = 0 THEN Len(PipelineStages)
                   ELSE failAt[pdb_it]
       IN /\ callLog' = callLog \o
                 [i \in 1..last |-> <<pdb_it, PipelineStages[i]>>]
          /\ IF failAt[pdb_it] = 0
             THEN runPc' = "loop" /\ idx' = idx + 1
             ELSE runPc' = "raised" /\ UNCHANGED idx
    /\ UNCHANGED <<pdb_centers, pdb_cent_list, failAt>>

\* the for loop is exhausted
RunSimulationReturn ==
    /\ runPc = "loop"
    /\ idx > Len(pdb_cent_list.list)
    /\ runPc' = "returned"
    /\ UNCHANGED <<pdb_centers, pdb_cent_list, failAt, idx, callLog>>

InitRun ==
    /\ pdb_centers \in {[set |-> FALSE, list |-> <<>>]} \cup
                       {[set |-> TRUE, list |-> l] : l \in ListsUpTo(MaxReps)}
    /\ pdb_cent_list \in {[none |-> TRUE, list |-> <<>>]} \cup
                       {[none |-> FALSE, list |-> l] : l \in ListsUpTo(MaxReps)}
    /\ failAt \in [Structures -> 0..Len(PipelineStages)]
    /\ runPc = "call"
    /\ idx = 0
    /\ callLog = <<>>

otherThanRun == <<cvVars, cfgVars, boxVars>>

NextRun ==
    \/ RunSimulationCall /\ UNCHANGED otherThanRun
    \/ RunSimulationIteration /\ UNCHANGED otherThanRun
    \/ RunSimulationReturn /\ UNCHANGED otherThanRun

StartRun == InitCV /\ CfgIdle /\ InitRun /\ BoxIdle

SpecRun == StartRun /\ [][NextRun]_vars

\* ---------------------------------------------- create_simulation_box
\* Mutant of BoxStages: hydrogens added after the solvent.
BoxStages_SolventFirst ==
    <<"open", "PDBFixer", "findNonstandardResidues",
      "replaceNonstandardResidues", "findMissingResidues", "findMissingAtoms",
      "addMissingAtoms", "Modeller", "addSolvent", "addHydrogens">>

\* The calls of create_simulation_box up to solvation, in program order.
BoxStages ==
    <<"open", "PDBFixer", "findNonstandardResidues",
      "replaceNonstandardResidues", "findMissingResidues", "findMissingAtoms",
      "addMissingAtoms", "Modeller", "addHydrogens", "addSolvent">>

\* kwargs.get('pH', 7.0)
EffectivePH == IF pH_kwarg = "absent" THEN "7.0" ELSE pH_kwarg

\* the argument a stage is called with that the claims speak about
StageArg(op) ==
    CASE op = "addMissingAtoms" -> "seed=0"
      [] op = "addHydrogens" -> EffectivePH
      [] OTHER -> ""

\* The next call of lines 54-83 runs; it returns or raises.
BoxStage ==
    /\ boxPc = "stages"
    /\ LET i == Len(boxLog) + 1 IN
       /\ boxLog' = Append(boxLog, [op |-> BoxStages[i],
                                    arg |-> StageArg(BoxStages[i])])
       /\ boxPc' = IF boxFailAt = i THEN "raised"
                   ELSE IF i = Len(BoxStages) THEN "write"
                   ELSE "stages"
    /\ UNCHANGED <<outfile, pH_kwarg, boxFailAt, written>>

\* if outfile is not None: open it and write the structure (keepIds=True)
BoxWriteOut ==
    /\ boxPc = "write"
    /\ IF outfile = "None"
       THEN boxPc' = "return" /\ UNCHANGED <<boxLog, written>>
       ELSE /\ boxLog' = Append(boxLog, [op |-> "writeFile", arg |-> outfile])
            /\ IF boxFailAt = Len(BoxStages) + 1
               THEN boxPc' = "raised" /\ UNCHANGED written
               ELSE boxPc' = "return" /\ written' = TRUE
    /\ UNCHANGED <<outfile, pH_kwarg, boxFailAt>>

\* return modeller.positions, modeller.topology
BoxReturn ==
    /\ boxPc = "return"
    /\ boxPc' = "returned"
    /\ UNCHANGED <<outfile, pH_kwarg, boxFailAt, boxLog, written>>

InitBox ==
    /\ outfile \in {"None", "box.pdb"}
    /\ pH_kwarg \in {"absent", "5.5", "8.0"}
    /\ boxFailAt \in 0..(Len(BoxStages) + 1)
    /\ boxPc = "stages"
    /\ boxLog = <<>>
    /\ written = FALSE

otherThanBox == <<cvVars, cfgVars, runVars>>

NextBox ==
    \/ BoxStage /\ UNCHANGED otherThanBox
    \/ BoxWriteOut /\ UNCHANGED otherThanBox
    \/ BoxReturn /\ UNCHANGED otherThanBox

StartBox == InitCV /\ CfgIdle /\ RunIdle /\ InitBox

SpecBox == StartBox /\ [][NextBox]_vars

\* ------------------------------------------------------ claims on SpecCV
LastHeader ==
    LET H == {i \in 1..Len(disk.lines) : disk.lines[i].kind = "header"}
    IN IF H = {} THEN 0 ELSE CHOOSE i \in H : \A j \in H : j <= i

\* the rows written by the reporter constructed last
CurrentRows == SubSeq(disk.lines, LastHeader + 1, Len(disk.lines))

\* C1: a run of endStep steps started at step 0 with report interval R ends
\* with exactly floor(endStep / R) rows from its reporter, each at a step
\* that is a multiple of R.
C1_RowCount ==
    (pc = "ended" /\ startStep = 0) =>
        /\ Len(CurrentRows) = endStep \div reportInterval
        /\ \A i \in 1..Len(CurrentRows) :
              /\ CurrentRows[i].kind = "row"
              /\ CurrentRows[i].step % reportInterval = 0

C1_Witness ==
    /\ pc = "ended"
    /\ startStep = 0
    /\ endStep = 4
    /\ reportInterval = 2
    /\ Len(CurrentRows) = 2
    /\ CurrentRows[1].step = 2
    /\ CurrentRows[2].step = 4

\* C2: a construction with an empty list of pairs fails with the
\* configuration error and leaves the output file unopened and untouched.
C2_NeverOpens ==
    [][(pc = "built" /\ pc' # "built" /\ list_of_cv' = ListArg(<<>>)) =>
          (ctorErr' = "AssertionError" /\ out' = "none" /\ disk' = disk)]_vars

\* C7: line 1 of a non-empty CV log is the header naming the configured
\* pairs, every later line is a row with one distance per pair of that
\* header, and no header appears after line 1.
C7_FileFormat ==
    Len(disk.lines) >= 1 =>
        /\ disk.lines[1].kind = "header"
        /\ (out = "open" /\ ctorErr = "none") =>
               disk.lines[1].names = list_of_cv.pairs
        /\ \A i \in 2..Len(disk.lines) :
              /\ disk.lines[i].kind = "row"
              /\ Len(disk.lines[i].vals) = Len(disk.lines[1].names)

\* C9: when the process that opened the output file is over, whichever way
\* its run loop or the construction ended, the handle has been closed.
C9_Released == pc = "exited" => out # "open"

\* C10: describeNextReport at step s answers n with 1 <= n <= R and s + n
\* the smallest multiple of R strictly greater than s.
C10_NextMultiple ==
    lastQuery.asked =>
        LET s == lastQuery.s
            n == lastQuery.n
            R == reportInterval
        IN /\ 1 <= n
           /\ n <= R
           /\ (s + n) % R = 0
           /\ \A m \in (s + 1)..(s + n - 1) : m % R # 0
           /\ (s % R = 0 => n = R)

C10_Witness ==
    /\ lastQuery.asked
    /\ lastQuery.s = startStep
    /\ lastQuery.s % reportInterval # 0
    /\ lastQuery.n = 1

\* ---------------------------------------------------- claims on SpecFill
RECURSIVE FullySpecified(_, _)
FullySpecified(c, d) ==
    \A k \in DOMAIN d :
        /\ k \in DOMAIN c
        /\ (IsDict(d[k]) /\ IsDict(c[k])) => FullySpecified(c[k].m, d[k].m)

\* C5: merging the defaults into a fully specified configuration leaves it
\* unchanged, merging them into the empty configuration yields the defaults,
\* and a second merge changes nothing.
C5_Idempotent ==
    /\ (nfill >= 1 /\ FullySpecified(orig, default_values)) => json_data = orig
    /\ (nfill >= 1 /\ orig = EmptyDict) => json_data = default_values
    /\ nfill >= 2 => json_data = prev

C5_Witness ==
    /\ nfill = 2
    /\ json_data # orig
    /\ \E k \in DOMAIN orig \cap DOMAIN default_values :
          /\ IsDict(orig[k]) /\ IsDict(default_values[k])
          /\ DOMAIN default_values[k].m \ DOMAIN orig[k].m # {}
          /\ DOMAIN orig[k].m # {}

\* ----------------------------------------------------- claims on SpecJob
PdbFileAbsent(c) == "pdb_file" \notin DOMAIN c \/ c["pdb_file"] = Scalar("None")

GroupGivenAsScalar(c) ==
    \E k \in GroupKeys : k \in DOMAIN c /\ ~IsDict(c[k])

\* C3: a job configuration without pdb_file (or with pdb_file null) makes
\* simulation() raise before the simulation object is constructed, before
\* any step is run and before save_checkpoint or save_pdb is called. The
\* error is the ValueError of the pdb_file check, or the TypeError of reading
\* a reporter group that the configuration gives as a non-dict value.
C3_FailsFast ==
    (PdbFileAbsent(orig) /\ jobPc # "entry") =>
        /\ jobPc = "raised"
        /\ jobErr = IF GroupGivenAsScalar(orig) THEN "TypeError"
                    ELSE "ValueError"
        /\ created = <<>>

C3_Witness ==
    /\ jobPc = "raised"
    /\ jobErr = "ValueError"
    /\ "pdb_file" \notin DOMAIN orig
    /\ "save_pdb" \in DOMAIN orig /\ orig["save_pdb"] = Scalar("u")
    /\ "save_checkpoint" \in DOMAIN orig
    /\ orig["save_checkpoint"] = Scalar("u")

\* every leaf the configuration gave keeps its value
KeepsGiven(c, r, d) ==
    \A k \in DOMAIN c :
        /\ k \in DOMAIN r
        /\ IF k \in DOMAIN d /\ IsDict(d[k]) /\ IsDict(c[k])
           THEN /\ IsDict(r[k])
                /\ \A j \in DOMAIN c[k].m :
                      j \in DOMAIN r[k].m /\ r[k].m[j] = c[k].m[j]
           ELSE r[k] = c[k]

\* every default key missing at the top level is filled
FillsTopLevel(c, r, d) ==
    \A k \in DOMAIN d :
        k \in DOMAIN r /\ (k \notin DOMAIN c => r[k] = d[k])

\* every key of a default group is present in the result's group, with the
\* default value unless the configuration gave it
FillsGroup(c, r, d, k) ==
    /\ IsDict(r[k])
    /\ \A j \in DOMAIN d[k].m :
          /\ j \in DOMAIN r[k].m
          /\ (k \in DOMAIN c /\ IsDict(c[k]) /\ j \in DOMAIN c[k].m)
             \/ r[k].m[j] = d[k].m[j]

\* C6 as stated: after the merge every given key keeps its value and every
\* key of the defaults, at the top level and inside cv_reporter and
\* xtc_reporter, is present (with its default value when it was missing).
C6_AsStated ==
    nfill >= 1 =>
        /\ KeepsGiven(orig, json_data, default_values)
        /\ FillsTopLevel(orig, json_data, default_values)
        /\ \A k \in GroupKeys :
              FillsGroup(orig, json_data, default_values, k)

\* C6 amended: as C6_AsStated, but the keys of a default group are filled
\* only when the configuration omits the group or gives it as a dict; a
\* group given as a non-dict value (such as null) is kept as given.
C6_DeepMerge ==
    nfill >= 1 =>
        /\ KeepsGiven(orig, json_data, default_values)
        /\ FillsTopLevel(orig, json_data, default_values)
        /\ \A k \in GroupKeys :
              IF k \in DOMAIN orig /\ ~IsDict(orig[k])
              THEN json_data[k] = orig[k]
              ELSE FillsGroup(orig, json_data, default_values, k)

C6_Witness ==
    /\ nfill >= 1
    /\ "cv_reporter" \in DOMAIN orig
    /\ IsDict(orig["cv_reporter"])
    /\ DOMAIN orig["cv_reporter"].m = {"list_of_index"}
    /\ json_data["cv_reporter"].m["list_of_index"] = Scalar("u")
    /\ json_data["cv_reporter"].m["cv_file"] = Scalar("COLVAR.dat")
    /\ json_data["cv_reporter"].m["cv_freq"] = Scalar("500")

\* ----------------------------------------------------- claims on SpecRun
Started(r) == \E i \in 1..Len(callLog) : callLog[i] = <<r, "SimulationBox">>
Completed(r) == \E i \in 1..Len(callLog) : callLog[i] = <<r, "run">>

\* C4: when run_simulation is over, the pipeline of every representative of
\* the list has been started, and that of every representative whose
\* pipeline does not fail has run to completion.
C4_Isolation ==
    (runPc \in {"raised", "returned"} /\ ~pdb_cent_list.none) =>
        \A i \in 1..Len(pdb_cent_list.list) :
            LET r == pdb_cent_list.list[i] IN
            /\ Started(r)
            /\ failAt[r] = 0 => Completed(r)

\* ----------------------------------------------------- claims on SpecBox
Pos(op) ==
    LET S == {i \in 1..Len(boxLog) : boxLog[i].op = op}
    IN IF S = {} THEN 0 ELSE CHOOSE i \in S : \A j \in S : i <= j

Ran(op) == Pos(op) > 0

Landmarks ==
    <<"open", "replaceNonstandardResidues", "findMissingResidues",
      "findMissingAtoms", "addMissingAtoms", "addHydrogens", "addSolvent",
      "writeFile">>

\* C8: the stages run in the order load, replace non-standard residues,
\* find and add what is missing (seed 0), add hydrogens (configured pH),
\* solvate; a stage runs only after every earlier one has run, nothing runs
\* after a stage that raised, and the structure is written only when outfile
\* is given and only after solvation.
C8_StageOrder ==
    /\ \A i, j \in 1..Len(Landmarks) :
          (i < j /\ Ran(Landmarks[j])) =>
              (Ran(Landmarks[i]) /\ Pos(Landmarks[i]) < Pos(Landmarks[j]))
    /\ \A i, j \in 1..Len(boxLog) : boxLog[i].op = boxLog[j].op => i = j
    /\ \A i \in 1..Len(boxLog) :
          /\ boxLog[i].op = "addMissingAtoms" => boxLog[i].arg = "seed=0"
          /\ boxLog[i].op = "addHydrogens" =>
                boxLog[i].arg = (IF pH_kwarg = "absent" THEN "7.0"
                                 ELSE pH_kwarg)
    /\ boxPc = "raised" => (boxFailAt = Len(boxLog) /\ ~written)
    /\ written => (outfile # "None" /\ Ran("addSolvent") /\ Ran("writeFile"))
    /\ Ran("writeFile") => outfile # "None"
    /\ boxPc = "returned" =>
          /\ Ran("addSolvent")
          /\ written <=> outfile # "None"

C8_Witness ==
    /\ boxPc = "returned"
    /\ written
    /\ pH_kwarg = "5.5"
    /\ Len(boxLog) = 11
    /\ boxLog[9] = [op |-> "addHydrogens", arg |-> "5.5"]
    /\ boxLog[10].op = "addSolvent"

====
